---- MODULE Spec2Model ----
(***************************************************************************)
(* A model of src/libs/OptionsListUtils.js: the module-level caches filled *)
(* by the Onyx subscriptions, the string matcher isSearchStringMatch, the  *)
(* option builder createOption and the filter/sort pipeline getOptions.    *)
(*                                                                         *)
(* JavaScript strings are modelled as sequences of one-character strings,  *)
(* so that lower-casing, dot removal, splitting, trimming and substring    *)
(* search are computed, not assumed.  NULL stands for both undefined and   *)
(* null: the code never tells them apart (it only tests truthiness or      *)
(* compares with === against strings).                                     *)
(***************************************************************************)
EXTENDS Integers, Sequences, FiniteSets, TLC

VARIABLES
    currentUserLogin,   \* let currentUserLogin            (line 20)
    loginList,          \* let loginList                   (line 26)
    countryCodeByIP,    \* let countryCodeByIP             (line 32)
    policies,           \* const policies = {}             (line 44)
    iouReports,         \* const iouReports = {}           (line 56)
    lastReportActions,  \* const lastReportActions = {}    (line 68)
    call,               \* the arguments of the last call of an exported function
    ret                 \* what that call returned (or that it threw) and its locals

vars == <<currentUserLogin, loginList, countryCodeByIP, policies, iouReports,
          lastReportActions, call, ret>>

caches == <<currentUserLogin, loginList, countryCodeByIP, policies, iouReports,
            lastReportActions>>

NULL == <<"null">>

\* An absent object (a null report, a missing cache entry, no personal detail).
NullObject == [null |-> TRUE]

(***************************************************************************)
(* Bounds of the model.                                                    *)
(***************************************************************************)
MaxQueryLen == 2
MaxTextLen == 2
MaxReports == 4
MaxSearchReports == 2
MaxMalformedReports == 3
MaxExcludeReports == 3
MaxPinnedReports == 3

(***************************************************************************)
(* String primitives (String.prototype and expensify-common/lib/str).      *)
(***************************************************************************)
\* The sequence with the elements of f, computed once.
asArray(f) == f \o <<>>

Strings(n, Alphabet) == UNION {[1..k -> Alphabet] : k \in 0..n}

LowerMap == [A |-> "a", B |-> "b", C |-> "c", D |-> "d", E |-> "e", L |-> "l",
             M |-> "m", O |-> "o", R |-> "r", X |-> "x", Z |-> "z"]

toLowerCase(s) ==
    asArray([i \in 1..Len(s) |-> IF s[i] \in DOMAIN LowerMap THEN LowerMap[s[i]] ELSE s[i]])

\* s.replace(/c/g, '')
removeChar(s, c) == SelectSeq(s, LAMBDA x : x # c)

\* s.replace(/c/g, d)
replaceChar(s, c, d) == [i \in 1..Len(s) |-> IF s[i] = c THEN d ELSE s[i]]

\* s.split(sep) for a one-character separator: ''.split(',') is [''].
RECURSIVE splitAcc(_, _, _)
splitAcc(s, sep, cur) ==
    IF s = <<>> THEN <<cur>>
    ELSE IF Head(s) = sep THEN <<cur>> \o splitAcc(Tail(s), sep, <<>>)
    ELSE splitAcc(Tail(s), sep, Append(cur, Head(s)))

split(s, sep) == splitAcc(s, sep, <<>>)

\* s.split(''): the characters of s, each a string; ''.split('') is [].
splitChars(s) == [i \in 1..Len(s) |-> <<s[i]>>]

\* list.join(sep)
RECURSIVE join(_, _)
join(list, sep) ==
    IF list = <<>> THEN <<>>
    ELSE IF Len(list) = 1 THEN list[1]
    ELSE list[1] \o sep \o join(Tail(list), sep)

WhiteSpace == {" ", "\t", "\n"}

RECURSIVE trimStart(_)
trimStart(s) == IF s # <<>> /\ Head(s) \in WhiteSpace THEN trimStart(Tail(s)) ELSE s

RECURSIVE trimEnd(_)
trimEnd(s) ==
    IF s # <<>> /\ s[Len(s)] \in WhiteSpace THEN trimEnd(SubSeq(s, 1, Len(s) - 1)) ELSE s

trim(s) == trimEnd(trimStart(s))

startsWith(s, p) == Len(p) <= Len(s) /\ SubSeq(s, 1, Len(p)) = p

endsWith(s, p) == Len(p) <= Len(s) /\ SubSeq(s, Len(s) - Len(p) + 1, Len(s)) = p

includes(s, p) == \E i \in 0..(Len(s) - Len(p)) : SubSeq(s, i + 1, i + Len(p)) = p

Nbsp == <<"&", "n", "b", "s", "p", ";">>

\* s.replace(/&nbsp;/g, ''): one left-to-right pass over non-overlapping matches.
RECURSIVE removeNbsp(_)
removeNbsp(s) ==
    IF s = <<>> THEN <<>>
    ELSE IF startsWith(s, Nbsp) THEN removeNbsp(SubSeq(s, Len(Nbsp) + 1, Len(s)))
    ELSE <<Head(s)>> \o removeNbsp(Tail(s))

\* new RegExp(Str.escapeForRegExp(word), 'i').test(value): the word, taken
\* literally, occurs in value up to the case of letters.
regexTestIgnoreCase(word, value) == includes(toLowerCase(value), toLowerCase(word))

(***************************************************************************)
(* isSearchStringMatch (lines 362-375).                                    *)
(***************************************************************************)
searchWords(searchValue) ==
    LET parts == split(replaceChar(removeChar(searchValue, "."), ",", " "), " ")
    IN  asArray([i \in 1..Len(parts) |-> trim(parts[i])])

wordMatches(word, searchText, participantNames, isChatRoom) ==
    LET valueToSearch == removeNbsp(searchText)
    IN  \/ regexTestIgnoreCase(word, valueToSearch)
        \/ (~isChatRoom /\ word \in participantNames)

isSearchStringMatch(searchValue, searchText, participantNames, isChatRoom) ==
    LET words == searchWords(searchValue)
    IN  \A i \in 1..Len(words) : wordMatches(words[i], searchText, participantNames, isChatRoom)

(***************************************************************************)
(* Character order of JavaScript string comparison (UTF-16 code units),    *)
(* restricted to the characters the model uses.                            *)
(***************************************************************************)
AsciiOrder == <<"\t", "\n", " ", "#", "&", "+", ",", ".", "0", "1", "2", "3", "4",
                "5", "6", "7", "8", "9", ";", "@", "A", "B", "C", "D", "E", "L", "M",
                "O", "R", "X", "Z", "a", "b", "c", "d", "e", "f", "g", "h", "i", "l",
                "m", "n", "o", "p", "r", "s", "t", "u", "x", "y", "z">>

charCode == [c \in {AsciiOrder[i] : i \in 1..Len(AsciiOrder)} |->
                CHOOSE i \in 1..Len(AsciiOrder) : AsciiOrder[i] = c]

\* a < b for two strings
RECURSIVE stringLess(_, _)
stringLess(a, b) ==
    IF b = <<>> THEN FALSE
    ELSE IF a = <<>> THEN TRUE
    ELSE IF Head(a) = Head(b) THEN stringLess(Tail(a), Tail(b))
    ELSE charCode[Head(a)] < charCode[Head(b)]

DigitChars == <<"0", "1", "2", "3", "4", "5", "6", "7", "8", "9">>

\* String(n) for a natural number
RECURSIVE numberToString(_)
numberToString(n) ==
    IF n < 10 THEN <<DigitChars[n + 1]>>
    ELSE numberToString(n \div 10) \o <<DigitChars[(n % 10) + 1]>>

Letters == {"a", "b", "c", "d", "e", "f", "g", "h", "i", "l", "m", "n", "o", "p", "r", "s",
            "t", "u", "x", "y", "z", "A", "B", "C", "D", "E", "L", "M", "O", "R", "X", "Z"}

DigitSet == {DigitChars[i] : i \in 1..10}

(***************************************************************************)
(* expensify-common/lib/str, as called from this file.                     *)
(***************************************************************************)
SMS_DOMAIN == <<"@", "e", "x", "p", "e", "n", "s", "i", "f", "y", ".", "s", "m", "s">>

\* Str.isValidPhone: an optional "+", a non-zero digit, then 1 to 14 digits.
isValidPhone(s) ==
    LET d == IF s # <<>> /\ Head(s) = "+" THEN Tail(s) ELSE s
    IN  /\ Len(d) >= 2
        /\ Len(d) <= 15
        /\ d[1] \in DigitSet \ {"0"}
        /\ \A i \in 1..Len(d) : d[i] \in DigitSet

\* Str.isValidEmail: local@label(.label)+ with a final label of two letters or more.
isValidEmail(s) ==
    LET parts == split(s, "@")
        labels == split(parts[2], ".")
    IN  /\ Len(parts) = 2
        /\ parts[1] # <<>>
        /\ \A i \in 1..Len(parts[1]) : parts[1][i] \in Letters \cup DigitSet \cup {".", "+"}
        /\ Len(labels) >= 2
        /\ \A i \in 1..Len(labels) :
              /\ labels[i] # <<>>
              /\ \A j \in 1..Len(labels[i]) : labels[i][j] \in Letters \cup DigitSet
        /\ Len(labels[Len(labels)]) >= 2
        /\ \A j \in 1..Len(labels[Len(labels)]) : labels[Len(labels)][j] \in Letters

\* Str.isDomainEmail: the address of a whole domain, "+@domain".
isDomainEmail(s) == startsWith(s, <<"+", "@">>)

\* Str.removeSMSDomain: text.replace('@expensify.sms', ''), the first occurrence.
RECURSIVE removeSMSDomain(_)
removeSMSDomain(s) ==
    IF s = <<>> THEN <<>>
    ELSE IF startsWith(s, SMS_DOMAIN) THEN SubSeq(s, Len(SMS_DOMAIN) + 1, Len(s))
    ELSE <<Head(s)>> \o removeSMSDomain(Tail(s))

(***************************************************************************)
(* Stable sorting: lodash orderBy and underscore sortBy both keep the      *)
(* input order of elements whose keys compare equal.  before(a, b) holds   *)
(* when a's key sorts strictly before b's.                                 *)
(***************************************************************************)
stableSort(list, before(_, _)) ==
    LET \* x goes behind every element that it does not sort strictly before.
        RECURSIVE insertSorted(_, _)
        insertSorted(sorted, x) ==
            IF sorted = <<>> THEN <<x>>
            ELSE IF ~before(x, sorted[Len(sorted)]) THEN Append(sorted, x)
            ELSE Append(insertSorted(SubSeq(sorted, 1, Len(sorted) - 1), x),
                        sorted[Len(sorted)])
        RECURSIVE sortPrefix(_)
        sortPrefix(n) ==
            IF n = 0 THEN <<>> ELSE insertSorted(sortPrefix(n - 1), list[n])
    IN  sortPrefix(Len(list))

(***************************************************************************)
(* The data the module reads.                                              *)
(*   personal detail: [login, displayName, firstName, lastName,            *)
(*                     phoneNumber, payPalMeAddress]                       *)
(*   report: [reportID, participants, chatType, archived, isPinned,        *)
(*            hasDraft, hasOutstandingIOU, iouReportID,                    *)
(*            lastMessageTimestamp, lastVisitedTimestamp, reportName,      *)
(*            unreadActionCount, policyID]                                 *)
(* A reportID or iouReportID of 0 is a missing one (both are falsy).  The  *)
(* personalDetails object is a sequence of details in key order, each      *)
(* keyed by its login.                                                     *)
(***************************************************************************)
isNull(object) == object = NullObject

truthy(string) == string # NULL /\ string # <<>>

\* personalDetails[login]
lookupPersonalDetail(personalDetails, login) ==
    IF \E i \in 1..Len(personalDetails) : personalDetails[i].login = login
    THEN personalDetails[CHOOSE i \in 1..Len(personalDetails) : personalDetails[i].login = login]
    ELSE NullObject

(***************************************************************************)
(* ReportUtils and Permissions: modules of the repository this file calls. *)
(***************************************************************************)
DefaultRoomTypes == {"policyAdmins", "policyAnnounce", "domainAll"}

isDefaultRoom(report) == ~isNull(report) /\ report.chatType \in DefaultRoomTypes

isUserCreatedPolicyRoom(report) == ~isNull(report) /\ report.chatType = "policyRoom"

isPolicyExpenseChat(report) == ~isNull(report) /\ report.chatType = "policyExpenseChat"

isChatRoom(report) == isUserCreatedPolicyRoom(report) \/ isDefaultRoom(report)

isArchivedRoom(report) ==
    /\ isChatRoom(report) \/ isPolicyExpenseChat(report)
    /\ report.archived

isUnread(report) == report.unreadActionCount > 0

cachedPolicy(report) ==
    IF report.policyID \in DOMAIN policies THEN policies[report.policyID] ELSE NullObject

getPolicyType(report) == IF isNull(cachedPolicy(report)) THEN "" ELSE cachedPolicy(report).type

getChatRoomSubtitle(report) ==
    IF ~(isChatRoom(report) \/ isPolicyExpenseChat(report)) THEN <<>>
    ELSE IF isNull(cachedPolicy(report)) THEN <<>>
    ELSE cachedPolicy(report).name

GuidesDomain == <<"@", "t", "e", "a", "m", ".", "e", "x", "p", "e", "n", "s", "i", "f", "y",
                  ".", "c", "o", "m">>

hasExpensifyGuidesEmails(logins) == \E i \in 1..Len(logins) : endsWith(logins[i], GuidesDomain)

canUseAllBetas(betas) == "all" \in betas

canUseChronos(betas) == "chronos" \in betas \/ canUseAllBetas(betas)

canUseDefaultRooms(betas) == "defaultRooms" \in betas \/ canUseAllBetas(betas)

canUsePolicyRooms(betas) == "policyRooms" \in betas \/ canUseAllBetas(betas)

canUsePolicyExpenseChat(betas) == "policyExpenseChat" \in betas \/ canUseAllBetas(betas)

\* ReportUtils.getReportName: a room's own name, else the participants' display names.
getReportName(report, personalDetailList) ==
    IF isChatRoom(report) \/ isPolicyExpenseChat(report) THEN report.reportName
    ELSE join([i \in 1..Len(personalDetailList) |-> personalDetailList[i].displayName],
              <<",", " ">>)

(***************************************************************************)
(* addSMSDomainIfPhoneNumber (lines 86-92).                                *)
(***************************************************************************)
\* `${countryCodeByIP}`
countryCodeString ==
    IF countryCodeByIP = 0 THEN <<"u", "n", "d", "e", "f", "i", "n", "e", "d">>
    ELSE numberToString(countryCodeByIP)

addSMSDomainIfPhoneNumber(login) ==
    IF isValidPhone(login) /\ ~isValidEmail(login)
    THEN LET smsLogin == login \o SMS_DOMAIN
         IN  IF includes(smsLogin, <<"+">>) THEN smsLogin
             ELSE <<"+">> \o countryCodeString \o smsLogin
    ELSE login

(***************************************************************************)
(* getPersonalDetailsForLogins (lines 101-115) followed by _.values: one   *)
(* detail per distinct login, in order of first occurrence.                *)
(***************************************************************************)
personalDetailFor(login, personalDetails) ==
    IF isNull(lookupPersonalDetail(personalDetails, login))
    THEN [login |-> login, displayName |-> removeSMSDomain(login), firstName |-> NULL,
          lastName |-> NULL, phoneNumber |-> NULL, payPalMeAddress |-> NULL]
    ELSE lookupPersonalDetail(personalDetails, login)

\* uniqFast (lines 152-164): the first occurrence of each item is kept.
uniqFast(items) ==
    LET firstAt(i) == \A j \in 1..(i - 1) : items[j] # items[i]
        kept == {i \in 1..Len(items) : firstAt(i)}
        nth(k) == CHOOSE i \in kept : Cardinality({j \in kept : j < i}) = k - 1
    IN  asArray([k \in 1..Cardinality(kept) |-> items[nth(k)]])

getPersonalDetailsForLogins(logins, personalDetails) ==
    LET keys == uniqFast(logins)
    IN  asArray([i \in 1..Len(keys) |-> personalDetailFor(keys[i], personalDetails)])

(***************************************************************************)
(* getParticipantNames (lines 124-143).                                    *)
(***************************************************************************)
getParticipantNames(personalDetailList) ==
    UNION {
        {toLowerCase(n) : n \in {x \in {personalDetailList[i].login,
                                        personalDetailList[i].firstName,
                                        personalDetailList[i].lastName,
                                        personalDetailList[i].displayName} : truthy(x)}}
        : i \in 1..Len(personalDetailList)}

(***************************************************************************)
(* getSearchText (lines 176-200).                                          *)
(***************************************************************************)
RECURSIVE flatten(_)
flatten(lists) == IF lists = <<>> THEN <<>> ELSE Head(lists) \o flatten(Tail(lists))

getSearchText(report, reportName, personalDetailList, isChatRoomOrPolicyExpenseChat) ==
    LET participantTerms ==
            IF isChatRoomOrPolicyExpenseChat THEN <<>>
            ELSE flatten([i \in 1..Len(personalDetailList) |->
                            <<personalDetailList[i].displayName,
                              removeChar(personalDetailList[i].login, ".")>>])
        reportTerms ==
            IF isNull(report) THEN <<>>
            ELSE splitChars(reportName) \o split(reportName, ",")
                 \o (IF isChatRoomOrPolicyExpenseChat
                     THEN splitChars(getChatRoomSubtitle(report))
                          \o split(getChatRoomSubtitle(report), ",")
                     ELSE report.participants)
    IN  join(uniqFast(participantTerms \o reportTerms), <<" ">>)

(***************************************************************************)
(* createOption (lines 237-351).  The fields that only feed the rendering  *)
(* (alternateText, icons, tooltipText, brickRoadIndicator, subtitle) are   *)
(* left out.  isIOUReportOwner is "null" until an IOU report is found.     *)
(***************************************************************************)
\* personalDetail is undefined when no login resolves, and line 347 reads
\* personalDetail.avatar: a TypeError.
createOptionThrows(logins) == uniqFast(logins) = <<>>

cachedIOUReport(report) ==
    IF report.iouReportID \in DOMAIN iouReports THEN iouReports[report.iouReportID]
    ELSE NullObject

\* Several participants only when several logins resolve.
hasSeveralLogins(personalDetailList, report) == Len(personalDetailList) > 1

\* lines 272 and 291
hasMultipleParticipants(personalDetailList, report) ==
    \/ Len(personalDetailList) > 1
    \/ (~isNull(report) /\ (isChatRoom(report) \/ isPolicyExpenseChat(report)))

optionFor(personalDetailList, report, reportName, iouReport) ==
    LET personalDetail == personalDetailList[1]
        hasReport == ~isNull(report)
        multiple == hasMultipleParticipants(personalDetailList, report)
    IN  [text |-> reportName,
         participantsList |-> personalDetailList,
         login |-> IF ~multiple THEN personalDetail.login ELSE NULL,
         reportID |-> IF hasReport THEN report.reportID ELSE 0,
         phoneNumber |-> IF ~multiple THEN personalDetail.phoneNumber ELSE NULL,
         payPalMeAddress |->
             IF ~multiple THEN personalDetail.payPalMeAddress ELSE NULL,
         isUnread |-> hasReport /\ report.unreadActionCount > 0,
         hasDraftComment |-> hasReport /\ report.hasDraft,
         keyForList |-> IF hasReport THEN numberToString(report.reportID)
                        ELSE personalDetail.login,
         searchText |-> getSearchText(report, reportName, personalDetailList,
                                      isChatRoom(report) \/ isPolicyExpenseChat(report)),
         isPinned |-> hasReport /\ report.isPinned,
         hasOutstandingIOU |-> hasReport /\ report.hasOutstandingIOU,
         iouReportID |-> IF hasReport THEN report.iouReportID ELSE 0,
         isIOUReportOwner |->
             IF isNull(iouReport) THEN "null"
             ELSE IF iouReport.ownerEmail = currentUserLogin THEN "true" ELSE "false",
         iouReportAmount |-> IF isNull(iouReport) THEN 0 ELSE iouReport.total,
         isChatRoom |-> isChatRoom(report),
         isArchivedRoom |-> isArchivedRoom(report),
         isPolicyExpenseChat |-> isPolicyExpenseChat(report)]

createOption(logins, personalDetails, report) ==
    LET named(personalDetailList) ==
            optionFor(personalDetailList, report,
                      getReportName(report, personalDetailList),
                      IF ~isNull(report) /\ report.hasOutstandingIOU
                      THEN cachedIOUReport(report) ELSE NullObject)
    IN  named(getPersonalDetailsForLogins(logins, personalDetails))

(***************************************************************************)
(* isCurrentUser (lines 383-404), called with {login: searchValue}.        *)
(***************************************************************************)
\* currentUserLogin.toLowerCase() and loginList.length are TypeErrors while
\* the session or the login list has not been delivered.
isCurrentUserThrows == currentUserLogin = NULL \/ isNull(loginList)

isCurrentUser(login) ==
    LET userDetailsLogin == addSMSDomainIfPhoneNumber(login)
    IN  \/ toLowerCase(currentUserLogin) = toLowerCase(userDetailsLogin)
        \/ \E i \in 1..Len(loginList.list) :
              toLowerCase(loginList.list[i].partnerUserID) = toLowerCase(userDetailsLogin)

(***************************************************************************)
(* getOptions (lines 416-695), in the order of the code.                   *)
(***************************************************************************)
\* lodashOrderBy(reports, sortProperty, sortDirection), lines 449-457: a
\* null entry has an undefined key, which lodash sorts after every defined
\* one ascending, hence before them descending.
sortsBefore(a, b, options) ==
    IF options.sortByAlphaAsc
    THEN ~isNull(a) /\ (isNull(b) \/ stringLess(a.reportName, b.reportName))
    ELSE IF options.sortByLastMessageTimestamp
    THEN ~isNull(b) /\ (isNull(a) \/ b.lastMessageTimestamp < a.lastMessageTimestamp)
    ELSE ~isNull(b) /\ (isNull(a) \/ b.lastVisitedTimestamp < a.lastVisitedTimestamp)

\* A variant of the move that puts the archived rooms in front.
archivedFirst(a, b) == isArchivedRoom(a) /\ ~isArchivedRoom(b)

\* _.sortBy(orderedReports, report => ReportUtils.isArchivedRoom(report)), line 460
archivedLast(a, b) == ~isArchivedRoom(a) /\ isArchivedRoom(b)

\* The indexes into reports of orderedReports, lines 457-460.
orderReports(reports, options) ==
    LET moveArchivedLast(byProperty) ==
            stableSort(byProperty, LAMBDA i, j : archivedLast(reports[i], reports[j]))
    IN  moveArchivedLast(stableSort([i \in 1..Len(reports) |-> i],
                             LAMBDA i, j : sortsBefore(reports[i], reports[j], options)))

\* lines 476-481
reportContainsIOUDebt(report) ==
    /\ report.hasOutstandingIOU
    /\ report.iouReportID # 0
    /\ ~isNull(cachedIOUReport(report))
    /\ cachedIOUReport(report).ownerEmail # currentUserLogin

\* The rule without its exception for reports that carry an IOU debt.
shouldFilterDespiteIOUDebt(report, activeReportID, options) ==
    /\ report.reportID # activeReportID
    /\ ~report.isPinned
    /\ ~report.hasDraft
    /\ \/ /\ ~options.showReportsWithNoComments
          /\ report.lastMessageTimestamp = 0
          /\ ~(~isArchivedRoom(report) /\ (isDefaultRoom(report) \/ isPolicyExpenseChat(report)))
       \/ (options.hideReadReports /\ ~isUnread(report))

\* lines 482-497
shouldFilterEmptyOrRead(report, activeReportID, options) ==
    LET shouldFilterReportIfEmpty ==
            /\ ~options.showReportsWithNoComments
            /\ report.lastMessageTimestamp = 0
            /\ ~(~isArchivedRoom(report) /\ (isDefaultRoom(report) \/ isPolicyExpenseChat(report)))
        shouldFilterReportIfRead == options.hideReadReports /\ ~isUnread(report)
    IN  /\ report.reportID # activeReportID
        /\ ~report.isPinned
        /\ ~report.hasDraft
        /\ shouldFilterReportIfEmpty \/ shouldFilterReportIfRead
        /\ ~reportContainsIOUDebt(report)

\* The beta gates without the exception for free-plan workspaces.
shouldFilterByBetaDespiteFreePlan(report, options) ==
    \/ /\ ~canUseDefaultRooms(options.betas)
       /\ isDefaultRoom(report)
       /\ ~hasExpensifyGuidesEmails(report.participants)
    \/ (isUserCreatedPolicyRoom(report) /\ ~canUsePolicyRooms(options.betas))
    \/ (isPolicyExpenseChat(report) /\ ~canUsePolicyExpenseChat(options.betas))

\* lines 503-520
shouldFilterByBeta(report, options) ==
    \/ /\ ~canUseDefaultRooms(options.betas)
       /\ isDefaultRoom(report)
       /\ getPolicyType(report) # "free"
       /\ ~hasExpensifyGuidesEmails(report.participants)
    \/ (isUserCreatedPolicyRoom(report) /\ ~canUsePolicyRooms(options.betas))
    \/ (isPolicyExpenseChat(report) /\ ~canUsePolicyExpenseChat(options.betas))

\* The callback of _.each(orderedReports, ...) returns early, lines 469-520.
\* It is only asked about a non-null report: see dereferencesNullReport.
isSkippedReport(report, activeReportID, options) ==
    \/ report.reportID = 0
    \/ /\ report.participants = <<>>
       /\ ~isChatRoom(report) /\ ~isDefaultRoom(report) /\ ~isPolicyExpenseChat(report)
    \/ shouldFilterEmptyOrRead(report, activeReportID, options)
    \/ (isChatRoom(report) /\ options.excludeChatRooms)
    \/ shouldFilterByBeta(report, options)

\* Line 467 reads report.participants before line 471 tests !report.
dereferencesNullReport(report) == isNull(report)

\* The reports, in order, for which the callback reaches createOption (line 529).
candidateReports(reports, orderedReports, activeReportID, options) ==
    SelectSeq(asArray([k \in 1..Len(orderedReports) |-> reports[orderedReports[k]]]),
              LAMBDA r : ~isNull(r) /\ ~isSkippedReport(r, activeReportID, options))

\* reportMapForLogins[login], lines 525-527: the last candidate wins.
reportForLogin(candidates, login) ==
    LET hits == {k \in 1..Len(candidates) :
                    /\ Len(candidates[k].participants) <= 1
                    /\ ~isPolicyExpenseChat(candidates[k])
                    /\ ~isChatRoom(candidates[k])
                    /\ candidates[k].participants[1] = login}
    IN  IF hits = {} THEN NullObject
        ELSE candidates[CHOOSE k \in hits : \A h \in hits : h <= k]

\* lines 535-549
buildPersonalDetailsOptions(candidates, personalDetails, options) ==
    LET all == asArray([i \in 1..Len(personalDetails) |->
                    createOption(<<personalDetails[i].login>>, personalDetails,
                                 reportForLogin(candidates, personalDetails[i].login))])
    IN  IF options.sortPersonalDetailsByAlphaAsc
        THEN stableSort(all, LAMBDA a, b : stringLess(toLowerCase(a.text), toLowerCase(b.text)))
        ELSE all

\* The exclusion list without the current user.
selectedAndExcludedLogins(options) ==
    [i \in 1..Len(options.selectedOptions) |-> options.selectedOptions[i].login]
    \o options.excludeLogins

\* lines 551-556
initialLoginsToExclude(options) ==
    [i \in 1..Len(options.selectedOptions) |-> options.selectedOptions[i].login]
    \o <<currentUserLogin>> \o options.excludeLogins

\* An exclusion list that keeps nothing out.
neverExcluded(login, loginOptionsToExclude) == FALSE

isExcluded(login, loginOptionsToExclude) ==
    \E i \in 1..Len(loginOptionsToExclude) : loginOptionsToExclude[i] = login

\* lines 578-582 and 639-643
matchesSearch(option, options) ==
    \/ options.searchValue = <<>>
    \/ isSearchStringMatch(options.searchValue, option.searchText,
                           getParticipantNames(option.participantsList), option.isChatRoom)

\* createOption sets no isDefaultRoom on an option, so line 588 reads undefined.
optionIsDefaultRoom(option) == FALSE

\* lines 587-596: the bucket an accepted option goes to
bucketOf(option, options) ==
    IF /\ options.prioritizePinnedReports
       /\ option.isPinned
       /\ ~(option.isArchivedRoom /\ optionIsDefaultRoom(option))
    THEN "pinned"
    ELSE IF /\ options.prioritizeIOUDebts
            /\ option.hasOutstandingIOU
            /\ option.isIOUReportOwner # "true"
    THEN "iouDebt"
    ELSE IF options.prioritizeReportsWithDraftComments /\ option.hasDraftComment
    THEN "draft"
    ELSE "recent"

\* line 561
reachedMaxRecentReports(acc, options) ==
    Len(acc.recent) > 0 /\ Len(acc.recent) = options.maxRecentReportsToShow

\* An iteration that accepts a matching option whatever its login.
visitWithoutExclusion(option, acc, options) ==
    IF ~options.includeMultipleParticipantReports /\ ~truthy(option.login) THEN acc
    ELSE IF ~matchesSearch(option, options) THEN acc
    ELSE [acc EXCEPT !.recent = Append(acc.recent, option)]

\* lines 565-601: one iteration of the loop that is not cut short by the break
visitReportOption(option, acc, options) ==
    IF ~options.includeMultipleParticipantReports /\ ~truthy(option.login) THEN acc
    ELSE IF truthy(option.login) /\ isExcluded(option.login, acc.exclude) THEN acc
    ELSE IF ~matchesSearch(option, options) THEN acc
    ELSE LET bucket == bucketOf(option, options)
         IN  [recent |-> IF bucket = "recent" THEN Append(acc.recent, option) ELSE acc.recent,
              pinned |-> IF bucket = "pinned" THEN Append(acc.pinned, option) ELSE acc.pinned,
              iouDebt |-> IF bucket = "iouDebt" THEN Append(acc.iouDebt, option) ELSE acc.iouDebt,
              draft |-> IF bucket = "draft" THEN Append(acc.draft, option) ELSE acc.draft,
              exclude |-> IF truthy(option.login) THEN Append(acc.exclude, option.login)
                          ELSE acc.exclude]

\* lines 558-603
RECURSIVE selectRecentReports(_, _, _, _)
selectRecentReports(allReportOptions, i, acc, options) ==
    IF i > Len(allReportOptions) THEN acc
    ELSE IF reachedMaxRecentReports(acc, options) THEN acc
    ELSE selectRecentReports(allReportOptions, i + 1,
                             visitReportOption(allReportOptions[i], acc, options), options)

\* recombine with the IOU debts put in front of the pinned reports
recombineDebtsFirst(acc, options) ==
    stableSort(acc.iouDebt, LAMBDA a, b : b.iouReportAmount < a.iouReportAmount)
    \o stableSort(acc.pinned, LAMBDA a, b : stringLess(a.text, b.text))
    \o stableSort(acc.draft, LAMBDA a, b : stringLess(a.text, b.text))
    \o acc.recent

\* lines 605-623
recombine(acc, options) ==
    LET withDrafts ==
            IF options.prioritizeReportsWithDraftComments
            THEN stableSort(acc.draft, LAMBDA a, b : stringLess(a.text, b.text)) \o acc.recent
            ELSE acc.recent
        withIOUs ==
            IF options.prioritizeIOUDebts
            THEN stableSort(acc.iouDebt, LAMBDA a, b : b.iouReportAmount < a.iouReportAmount)
                 \o withDrafts
            ELSE withDrafts
    IN  IF options.prioritizePinnedReports
        THEN stableSort(acc.pinned, LAMBDA a, b : stringLess(a.text, b.text)) \o withIOUs
        ELSE withIOUs

\* lines 626-629
prioritizeDefaultRooms(recentReportOptions, options) ==
    IF options.prioritizeDefaultRoomsInSearch /\ options.searchValue # <<>>
    THEN SelectSeq(recentReportOptions, LAMBDA o : o.isChatRoom)
         \o SelectSeq(recentReportOptions, LAMBDA o : ~o.isChatRoom)
    ELSE recentReportOptions

\* lines 631-646
selectPersonalDetails(allPersonalDetailsOptions, loginOptionsToExclude, options) ==
    IF options.includePersonalDetails
    THEN SelectSeq(allPersonalDetailsOptions,
                   LAMBDA o : /\ ~isExcluded(o.login, loginOptionsToExclude)
                              /\ matchesSearch(o, options))
    ELSE <<>>

CHRONOS == <<"c", "h", "r", "o", "n", "o", "s", "@", "e", "x", "p", "e", "n", "s", "i", "f",
             "y", ".", "c", "o", "m">>

\* line 650
noOptionsMatchExactly(personalDetailsOptions, recentReportOptions, searchValue) ==
    LET all == personalDetailsOptions \o recentReportOptions
    IN  ~\E i \in 1..Len(all) : all[i].login = toLowerCase(searchValue)

\* line 651, up to the call of isCurrentUser
reachesIsCurrentUser(personalDetailsOptions, recentReportOptions, options) ==
    /\ options.searchValue # <<>>
    /\ \/ Len(recentReportOptions) + Len(personalDetailsOptions) = 0
       \/ noOptionsMatchExactly(personalDetailsOptions, recentReportOptions, options.searchValue)

\* lines 651-656
shouldInvite(personalDetailsOptions, recentReportOptions, loginOptionsToExclude, options) ==
    LET searchValue == options.searchValue
    IN  /\ reachesIsCurrentUser(personalDetailsOptions, recentReportOptions, options)
        /\ ~isCurrentUser(searchValue)
        /\ \A i \in 1..Len(options.selectedOptions) :
              options.selectedOptions[i].login # searchValue
        /\ \/ (isValidEmail(searchValue) /\ ~isDomainEmail(searchValue))
           \/ isValidPhone(searchValue)
        /\ ~isExcluded(toLowerCase(addSMSDomainIfPhoneNumber(searchValue)),
                       loginOptionsToExclude)
        /\ (searchValue # CHRONOS \/ canUseChronos(options.betas))

\* lines 660-663
inviteLogin(searchValue) ==
    IF isValidPhone(searchValue) /\ ~includes(searchValue, <<"+">>)
    THEN <<"+">> \o countryCodeString \o searchValue
    ELSE searchValue

\* lines 674-687: the iteratee of the sort by report type
reportTypeRank(option, searchValue) ==
    IF option.isChatRoom \/ option.isArchivedRoom THEN 3
    ELSE IF ~truthy(option.login) THEN 2
    ELSE IF toLowerCase(option.login) # toLowerCase(searchValue) THEN 1
    ELSE 0

sortsByReportType(options) == options.sortByReportTypeInSearch /\ options.searchValue # <<>>

\* The merge without the sort by report type.
mergeWithoutSorting(recentReportOptions, personalDetailsOptions, options) ==
    IF sortsByReportType(options) THEN recentReportOptions \o personalDetailsOptions
    ELSE recentReportOptions

\* lines 670-688: recentReports after the merge
mergeAndSortByReportType(recentReportOptions, personalDetailsOptions, options) ==
    IF sortsByReportType(options)
    THEN stableSort(recentReportOptions \o personalDetailsOptions,
                    LAMBDA a, b : reportTypeRank(a, options.searchValue)
                                  < reportTypeRank(b, options.searchValue))
    ELSE recentReportOptions

EmptyBuckets(options) ==
    [recent |-> <<>>, pinned |-> <<>>, iouDebt |-> <<>>, draft |-> <<>>,
     exclude |-> initialLoginsToExclude(options)]

\* The whole call.  Besides the returned object the result keeps the locals
\* the properties below speak about.
getOptions(reports, personalDetails, activeReportID, options) ==
    LET result(orderedReports, allReportOptions, acc, recentReportOptions,
               personalDetailsOptions) ==
            IF /\ reachesIsCurrentUser(personalDetailsOptions, recentReportOptions, options)
               /\ isCurrentUserThrows
            THEN [fn |-> "getOptions", status |-> "threw", orderedReports |-> orderedReports]
            ELSE [fn |-> "getOptions", status |-> "returned",
                  personalDetails |-> IF sortsByReportType(options) THEN <<>>
                                      ELSE personalDetailsOptions,
                  recentReports |-> mergeAndSortByReportType(recentReportOptions,
                                                            personalDetailsOptions, options),
                  userToInvite |->
                      IF shouldInvite(personalDetailsOptions, recentReportOptions,
                                      acc.exclude, options)
                      THEN createOption(<<inviteLogin(options.searchValue)>>,
                                        personalDetails, NullObject)
                      ELSE NullObject,
                  orderedReports |-> orderedReports,
                  allReportOptions |-> allReportOptions,
                  buckets |-> acc,
                  recentBeforeMerge |-> recentReportOptions,
                  personalBeforeMerge |-> personalDetailsOptions]
        selected(orderedReports, candidates, allReportOptions, acc) ==
            result(orderedReports, allReportOptions, acc,
                   prioritizeDefaultRooms(recombine(acc, options), options),
                   selectPersonalDetails(
                       buildPersonalDetailsOptions(candidates, personalDetails, options),
                       acc.exclude, options))
        built(orderedReports, candidates, allReportOptions) ==
            selected(orderedReports, candidates, allReportOptions,
                     IF options.includeRecentReports
                     THEN selectRecentReports(allReportOptions, 1, EmptyBuckets(options),
                                              options)
                     ELSE EmptyBuckets(options))
        filtered(orderedReports, candidates) ==
            IF \/ \E i \in 1..Len(reports) : dereferencesNullReport(reports[i])
               \/ \E k \in 1..Len(candidates) : createOptionThrows(candidates[k].participants)
            THEN [fn |-> "getOptions", status |-> "threw", orderedReports |-> orderedReports]
            ELSE built(orderedReports, candidates,
                       asArray([k \in 1..Len(candidates) |->
                                   createOption(candidates[k].participants, personalDetails,
                                                candidates[k])]))
        ordered(orderedReports) ==
            filtered(orderedReports,
                     candidateReports(reports, orderedReports, activeReportID, options))
    IN  ordered(orderReports(reports, options))

\* The default values of the options, lines 417-440.
DefaultOptions ==
    [betas |-> {}, selectedOptions |-> <<>>, maxRecentReportsToShow |-> 0,
     excludeLogins |-> <<>>, excludeChatRooms |-> FALSE,
     includeMultipleParticipantReports |-> FALSE, includePersonalDetails |-> FALSE,
     includeRecentReports |-> FALSE, prioritizePinnedReports |-> FALSE,
     prioritizeDefaultRoomsInSearch |-> FALSE, sortByReportTypeInSearch |-> FALSE,
     sortByLastMessageTimestamp |-> TRUE, searchValue |-> <<>>,
     showReportsWithNoComments |-> FALSE, hideReadReports |-> FALSE,
     sortByAlphaAsc |-> FALSE, sortPersonalDetailsByAlphaAsc |-> TRUE,
     prioritizeIOUDebts |-> FALSE, prioritizeReportsWithDraftComments |-> FALSE]

(***************************************************************************)
(* The Onyx subscriptions (lines 20-78).  A callback runs between calls of *)
(* the exported functions: call and ret record one call and are cleared    *)
(* (Done) before the next event.                                           *)
(***************************************************************************)
idle == call.fn = "none"

\* lines 21-24: val && val.email
SessionCallback(val) ==
    /\ idle
    /\ currentUserLogin' = IF isNull(val) THEN NULL ELSE val.email
    /\ UNCHANGED <<loginList, countryCodeByIP, policies, iouReports, lastReportActions,
                   call, ret>>

\* lines 27-30: _.isEmpty(val) ? [] : val
LoginListCallback(val) ==
    /\ idle
    /\ loginList' = IF isNull(val) THEN [list |-> <<>>] ELSE val
    /\ UNCHANGED <<currentUserLogin, countryCodeByIP, policies, iouReports,
                   lastReportActions, call, ret>>

\* lines 33-36: val || 1 (0 stands for a missing value)
CountryCodeCallback(val) ==
    /\ idle
    /\ countryCodeByIP' = IF val = 0 THEN 1 ELSE val
    /\ UNCHANGED <<currentUserLogin, loginList, policies, iouReports, lastReportActions,
                   call, ret>>

\* lines 45-54
PolicyCallback(policy, key) ==
    /\ idle
    /\ policies' = IF isNull(policy) \/ ~truthy(policy.name) THEN policies
                   ELSE [policies EXCEPT ![key] = policy]
    /\ UNCHANGED <<currentUserLogin, loginList, countryCodeByIP, iouReports,
                   lastReportActions, call, ret>>

\* lines 57-66
IOUReportCallback(iouReport, key) ==
    /\ idle
    /\ iouReports' = IF isNull(iouReport) \/ ~truthy(iouReport.ownerEmail) THEN iouReports
                     ELSE [iouReports EXCEPT ![key] = iouReport]
    /\ UNCHANGED <<currentUserLogin, loginList, countryCodeByIP, policies,
                   lastReportActions, call, ret>>

\* lines 69-78: _.last(_.toArray(actions)) is undefined for an empty collection
ReportActionsCallback(actions, key) ==
    /\ idle
    /\ lastReportActions' =
          IF isNull(actions) THEN lastReportActions
          ELSE [lastReportActions EXCEPT ![key] =
                   IF actions.list = <<>> THEN NullObject
                   ELSE actions.list[Len(actions.list)]]
    /\ UNCHANGED <<currentUserLogin, loginList, countryCodeByIP, policies, iouReports,
                   call, ret>>

(***************************************************************************)
(* Calls.                                                                  *)
(***************************************************************************)
IsSearchStringMatchCall(searchValue, searchText, participantNames, isChatRoomArg) ==
    /\ idle
    /\ call' = [fn |-> "isSearchStringMatch", searchValue |-> searchValue,
                searchText |-> searchText, participantNames |-> participantNames,
                isChatRoom |-> isChatRoomArg]
    /\ ret' = [fn |-> "isSearchStringMatch",
               value |-> isSearchStringMatch(searchValue, searchText, participantNames,
                                             isChatRoomArg)]
    /\ UNCHANGED caches

\* The reports array had it been sorted in place.
reportsSortedInPlace(reports, result) ==
    [k \in 1..Len(result.orderedReports) |-> reports[result.orderedReports[k]]] \o <<>>

\* lodashOrderBy and _.sortBy (lines 457-460) return new arrays and no
\* statement of getOptions assigns to reports or to an element of it.
reportsAfter(reports, result) == reports

\* line 552 copies selectedOptions into loginOptionsToExclude, so the pushes
\* of lines 555 and 600 go to the copy.
selectedOptionsAfter(options, result) == options.selectedOptions

\* The arguments as the caller finds them once the call is over: getOptions
\* has no other write to an argument or to a property of one.
inputsAfterCall(reports, personalDetails, options, result) ==
    [reports |-> reportsAfter(reports, result),
     personalDetails |-> personalDetails,
     selectedOptions |-> selectedOptionsAfter(options, result),
     excludeLogins |-> options.excludeLogins,
     betas |-> options.betas]

GetOptionsCall(reports, personalDetails, activeReportID, options) ==
    /\ idle
    /\ call' = [fn |-> "getOptions", reports |-> reports,
                personalDetails |-> personalDetails, activeReportID |-> activeReportID,
                options |-> options]
    /\ ret' = LET withInputs(result) ==
                      result @@ [inputsAfter |->
                                    inputsAfterCall(reports, personalDetails, options, result)]
              IN  withInputs(getOptions(reports, personalDetails, activeReportID, options))
    /\ UNCHANGED caches

\* The cap of the new-chat view, line 787.
NewChatMaxRecentReports == 5

\* The new-chat view without a cap on the recent reports.
getNewChatOptionsUncapped(reports, personalDetails, betas, searchValue, selectedOptions, excludeLogins) ==
    getOptions(reports, personalDetails, 0,
               [DefaultOptions EXCEPT !.betas = betas,
                                      !.searchValue = trim(searchValue),
                                      !.selectedOptions = selectedOptions,
                                      !.excludeChatRooms = TRUE,
                                      !.includeRecentReports = TRUE,
                                      !.includePersonalDetails = TRUE,
                                      !.excludeLogins = excludeLogins])

\* getNewChatOptions, lines 772-790
getNewChatOptions(reports, personalDetails, betas, searchValue, selectedOptions, excludeLogins) ==
    getOptions(reports, personalDetails, 0,
               [DefaultOptions EXCEPT !.betas = betas,
                                      !.searchValue = trim(searchValue),
                                      !.selectedOptions = selectedOptions,
                                      !.excludeChatRooms = TRUE,
                                      !.includeRecentReports = TRUE,
                                      !.includePersonalDetails = TRUE,
                                      !.maxRecentReportsToShow = NewChatMaxRecentReports,
                                      !.excludeLogins = excludeLogins])

GetNewChatOptionsCall(reports, personalDetails, betas, searchValue, selectedOptions, excludeLogins) ==
    /\ idle
    /\ call' = [fn |-> "getNewChatOptions", reports |-> reports,
                personalDetails |-> personalDetails, betas |-> betas,
                searchValue |-> searchValue, selectedOptions |-> selectedOptions,
                excludeLogins |-> excludeLogins]
    /\ ret' = getNewChatOptions(reports, personalDetails, betas, searchValue,
                                selectedOptions, excludeLogins)
    /\ UNCHANGED caches

\* The caller is done with the result.
Done ==
    /\ ~idle
    /\ call' = [fn |-> "none"]
    /\ ret' = [fn |-> "none"]
    /\ UNCHANGED caches

(***************************************************************************)
(* The state after the module is loaded: no subscription has delivered.    *)
(***************************************************************************)
PolicyIDs == {"p1"}

IOUReportIDs == {1, 2}

ReportIDs == {1, 2}

Init ==
    /\ currentUserLogin = NULL
    /\ loginList = NullObject
    /\ countryCodeByIP = 0
    /\ policies = [k \in PolicyIDs |-> NullObject]
    /\ iouReports = [k \in IOUReportIDs |-> NullObject]
    /\ lastReportActions = [k \in ReportIDs |-> NullObject]
    /\ call = [fn |-> "none"]
    /\ ret = [fn |-> "none"]

(***************************************************************************)
(* The string matcher on its own: queries and search texts are all the     *)
(* strings up to a length, and some longer ones.                           *)
(***************************************************************************)
MatchQueries ==
    Strings(MaxQueryLen, {"a", "A", "b", ".", ",", " "})
    \cup {<<"a", "b", "\t">>, <<"A", "B", " ", " ", "b">>, <<"a", ",", "b", "a">>,
          <<"b", ".", "a", " ", "a">>}

MatchTexts ==
    Strings(MaxTextLen, {"a", "b"})
    \cup {<<"a", "&", "n", "b", "s", "p", ";", "b">>, <<"B", "a", " ", "b">>}

MatchNames == {{}, {<<"a", "b">>}, {<<"b">>, <<"a", "b">>}}

NextMatch ==
    \/ /\ idle
       /\ \E searchValue \in MatchQueries, searchText \in MatchTexts,
             participantNames \in MatchNames, isRoom \in BOOLEAN :
                IsSearchStringMatchCall(searchValue, searchText, participantNames, isRoom)
    \/ Done

SpecMatch == Init /\ [][NextMatch]_vars

\* C2: isSearchStringMatch returns true exactly when every token of the
\* normalized query is a case-insensitive substring of the search text with
\* '&nbsp;' removed or, for an option that is not a chat room, its
\* lower-cased form is in the participant-name set.
C2_MatchesIffEveryTokenMatches ==
    ret.fn = "isSearchStringMatch" =>
        (ret.value <=>
            \A i \in 1..Len(searchWords(call.searchValue)) :
                LET token == searchWords(call.searchValue)[i]
                IN  \/ includes(toLowerCase(removeNbsp(call.searchText)), toLowerCase(token))
                    \/ (~call.isChatRoom /\ toLowerCase(token) \in call.participantNames))

(***************************************************************************)
(* The people and reports the calls of getOptions are drawn from.          *)
(***************************************************************************)
ME == <<"m", "@", "x", ".", "c", "o">>

AL == <<"a", "@", "x", ".", "c", "o">>

BO == <<"B", "@", "x", ".", "c", "o">>

Myself == [login |-> ME, displayName |-> <<"M", "e">>, firstName |-> <<"M", "e">>,
           lastName |-> NULL, phoneNumber |-> NULL, payPalMeAddress |-> NULL]

Alice == [login |-> AL, displayName |-> <<"A", "l">>, firstName |-> <<"A", "l">>,
          lastName |-> <<"Z", "e", "d">>, phoneNumber |-> <<"+", "1", "2">>,
          payPalMeAddress |-> <<"a", "l">>]

Bob == [login |-> BO, displayName |-> <<"B", "o">>, firstName |-> NULL,
        lastName |-> NULL, phoneNumber |-> NULL, payPalMeAddress |-> NULL]

People == <<Alice, Bob, Myself>>

BaseReport ==
    [reportID |-> 1, participants |-> <<AL>>, chatType |-> "", archived |-> FALSE,
     isPinned |-> FALSE, hasDraft |-> FALSE, hasOutstandingIOU |-> FALSE,
     iouReportID |-> 0, lastMessageTimestamp |-> 1, lastVisitedTimestamp |-> 1,
     reportName |-> <<"C", "h", "a", "t">>, unreadActionCount |-> 0, policyID |-> "none"]

\* The sequences of at most n distinct elements of a set.
ListsOf(S, n) ==
    {l \in UNION {[1..k -> S] : k \in 0..n} : \A i, j \in 1..Len(l) : i # j => l[i] # l[j]}

SessionValues == {NullObject, [email |-> ME]}

IOUReportValues ==
    {NullObject, [ownerEmail |-> <<>>, total |-> 3], [ownerEmail |-> AL, total |-> 1],
     [ownerEmail |-> AL, total |-> 2], [ownerEmail |-> ME, total |-> 2]}

(***************************************************************************)
(* Calls with every prioritization on, over pinned reports, reports with   *)
(* an outstanding IOU, reports with a draft and plain ones.                *)
(***************************************************************************)
PriorityReports ==
    {[BaseReport EXCEPT !.reportID = 1, !.participants = <<BO, AL>>, !.isPinned = TRUE,
                        !.lastMessageTimestamp = 5],
     [BaseReport EXCEPT !.reportID = 2, !.participants = <<AL, BO>>, !.isPinned = TRUE,
                        !.hasDraft = TRUE, !.hasOutstandingIOU = TRUE, !.iouReportID = 2,
                        !.lastMessageTimestamp = 4],
     [BaseReport EXCEPT !.reportID = 3, !.participants = <<AL>>,
                        !.hasOutstandingIOU = TRUE, !.iouReportID = 1,
                        !.lastMessageTimestamp = 3],
     [BaseReport EXCEPT !.reportID = 4, !.participants = <<AL, BO>>, !.hasDraft = TRUE,
                        !.hasOutstandingIOU = TRUE, !.iouReportID = 2,
                        !.lastMessageTimestamp = 3],
     [BaseReport EXCEPT !.reportID = 5, !.participants = <<BO>>, !.hasDraft = TRUE,
                        !.lastMessageTimestamp = 2],
     [BaseReport EXCEPT !.reportID = 6, !.participants = <<BO, AL>>,
                        !.lastMessageTimestamp = 1]}

PriorityOptions ==
    {[DefaultOptions EXCEPT !.includeRecentReports = TRUE,
                            !.includeMultipleParticipantReports = TRUE,
                            !.prioritizePinnedReports = TRUE,
                            !.prioritizeIOUDebts = TRUE,
                            !.prioritizeReportsWithDraftComments = TRUE,
                            !.maxRecentReportsToShow = max]
        : max \in {0, 1}}

PriorityReportLists == ListsOf(PriorityReports, MaxReports)

NextPriority ==
    \/ \E val \in SessionValues : SessionCallback(val)
    \/ \E iouReport \in IOUReportValues, key \in IOUReportIDs :
          IOUReportCallback(iouReport, key)
    \/ /\ idle
       /\ \E reports \in PriorityReportLists, options \in PriorityOptions :
             GetOptionsCall(reports, People, 0, options)
    \/ Done

SpecPriority == Init /\ [][NextPriority]_vars

returned == ret.fn = "getOptions" /\ ret.status = "returned"

\* The positions p+1 .. p+n of a list.
segment(list, p, n) == SubSeq(list, p + 1, p + n)

reportIDsOf(list) == {list[i].reportID : i \in 1..Len(list)}

sameEntries(a, b) == Len(a) = Len(b) /\ reportIDsOf(a) = reportIDsOf(b)

positionIn(list, option) == CHOOSE k \in 1..Len(list) : list[k].reportID = option.reportID

allPrioritized(options) ==
    /\ options.includeRecentReports
    /\ options.prioritizePinnedReports
    /\ options.prioritizeIOUDebts
    /\ options.prioritizeReportsWithDraftComments
    /\ ~(options.prioritizeDefaultRoomsInSearch /\ options.searchValue # <<>>)
    /\ ~sortsByReportType(options)

\* C1: with every prioritization on, recentReports is the pinned bucket in
\* ascending order of text, then the IOU-debt bucket in descending order of
\* iouReportAmount, then the draft bucket in ascending order of text, then
\* the plain entries in candidate order; every accepted entry is in exactly
\* one of the four segments.
C1_RecombinationOrder ==
    (returned /\ allPrioritized(call.options)) =>
        LET out == ret.recentReports
            b == ret.buckets
            pinned == segment(out, 0, Len(b.pinned))
            iouDebt == segment(out, Len(b.pinned), Len(b.iouDebt))
            draft == segment(out, Len(b.pinned) + Len(b.iouDebt), Len(b.draft))
            plain == segment(out, Len(b.pinned) + Len(b.iouDebt) + Len(b.draft),
                             Len(b.recent))
        IN  /\ Len(out) = Len(b.pinned) + Len(b.iouDebt) + Len(b.draft) + Len(b.recent)
            /\ Cardinality(reportIDsOf(out)) = Len(out)
            /\ sameEntries(pinned, b.pinned)
            /\ sameEntries(iouDebt, b.iouDebt)
            /\ sameEntries(draft, b.draft)
            /\ plain = b.recent
            /\ \A i, j \in 1..Len(pinned) : i < j => ~stringLess(pinned[j].text, pinned[i].text)
            /\ \A i, j \in 1..Len(iouDebt) :
                  i < j => iouDebt[i].iouReportAmount >= iouDebt[j].iouReportAmount
            /\ \A i, j \in 1..Len(draft) : i < j => ~stringLess(draft[j].text, draft[i].text)
            /\ \A i, j \in 1..Len(plain) :
                  i < j => positionIn(ret.allReportOptions, plain[i])
                           < positionIn(ret.allReportOptions, plain[j])

\* A call whose four buckets are all in use, the IOU debts of different amounts.
C1_Witness ==
    /\ returned /\ allPrioritized(call.options)
    /\ Len(ret.buckets.pinned) >= 1
    /\ Len(ret.buckets.iouDebt) >= 2
    /\ Len(ret.buckets.draft) >= 1
    /\ \E i, j \in 1..Len(ret.buckets.iouDebt) :
          ret.buckets.iouDebt[i].iouReportAmount < ret.buckets.iouDebt[j].iouReportAmount
    /\ Len(ret.recentReports) = MaxReports

(***************************************************************************)
(* Searching: direct chats, a group, rooms and a policy-expense-chat, the  *)
(* three people as personal details, and queries that match by substring,  *)
(* by participant name only ("zed"), by exact login, or not at all.        *)
(***************************************************************************)
ME2 == <<"m", "e", "@", "x", ".", "c", "o">>

LoginListValues == {NullObject, [list |-> <<[partnerUserID |-> ME2]>>]}

SearchReports ==
    {[BaseReport EXCEPT !.reportID = 1, !.participants = <<AL>>, !.lastMessageTimestamp = 6],
     [BaseReport EXCEPT !.reportID = 2, !.participants = <<BO>>, !.lastMessageTimestamp = 5],
     [BaseReport EXCEPT !.reportID = 3, !.participants = <<AL, BO>>,
                        !.lastMessageTimestamp = 4],
     [BaseReport EXCEPT !.reportID = 4, !.participants = <<AL>>, !.chatType = "policyRoom",
                        !.reportName = <<"#", "b", "o">>, !.policyID = "p1",
                        !.lastMessageTimestamp = 3],
     [BaseReport EXCEPT !.reportID = 5, !.participants = <<AL>>,
                        !.chatType = "policyExpenseChat", !.reportName = <<"E", "x">>,
                        !.policyID = "p1", !.lastMessageTimestamp = 2],
     [BaseReport EXCEPT !.reportID = 6, !.participants = <<BO>>,
                        !.chatType = "policyAnnounce", !.archived = TRUE,
                        !.reportName = <<"#", "a", "d">>, !.policyID = "p1",
                        !.lastMessageTimestamp = 7]}

SearchReportLists == ListsOf(SearchReports, MaxSearchReports)

SearchQueries ==
    {<<>>, <<"z", "e", "d">>, <<"a", "l">>, <<"o">>, <<"q">>, <<" ">>,
     <<"A", "@", "x", ".", "c", "o">>, <<"b", "@", "x", ".", "c", "o">>,
     <<"b", "o", ",", "Z", "E", "D">>}

SearchOptions ==
    {[DefaultOptions EXCEPT !.betas = {"all"},
                            !.includeRecentReports = TRUE,
                            !.includeMultipleParticipantReports = TRUE,
                            !.showReportsWithNoComments = TRUE,
                            !.includePersonalDetails = details,
                            !.sortByReportTypeInSearch = byType,
                            !.searchValue = searchValue]
        : details \in BOOLEAN, byType \in BOOLEAN, searchValue \in SearchQueries}

NextSearch ==
    \/ \E val \in SessionValues : SessionCallback(val)
    \/ \E val \in LoginListValues : LoginListCallback(val)
    \/ /\ idle
       /\ \E reports \in SearchReportLists, options \in SearchOptions :
             GetOptionsCall(reports, People, 0, options)
    \/ Done

SpecSearch == Init /\ [][NextSearch]_vars

accepted(buckets) == buckets.pinned \o buckets.iouDebt \o buckets.draft \o buckets.recent

everyTokenInSearchText(option, searchValue) ==
    \A i \in 1..Len(searchWords(searchValue)) :
        includes(toLowerCase(removeNbsp(option.searchText)),
                 toLowerCase(searchWords(searchValue)[i]))

\* C3: with a non-empty query, a chat room or policy-expense-chat is accepted
\* as a recent report only if every query token is a substring of its search
\* text; a token's membership in the participant names never makes it match.
C3_RoomLikeMatchesBySearchTextOnly ==
    (returned /\ call.options.searchValue # <<>>) =>
        \A i \in 1..Len(accepted(ret.buckets)) :
            LET option == accepted(ret.buckets)[i]
            IN  (option.isChatRoom \/ option.isPolicyExpenseChat)
                    => everyTokenInSearchText(option, call.options.searchValue)

(***************************************************************************)
(* Invite suggestion: queries that are logins of known people in either    *)
(* letter case, the current user's logins, a new address, phone numbers, a *)
(* domain address and text that is no login at all.                        *)
(***************************************************************************)
NU == <<"n", "@", "x", ".", "c", "o">>

InviteQueries ==
    {<<>>, AL, BO, toLowerCase(BO), <<"A", "@", "x", ".", "c", "o">>, ME, ME2, NU,
     <<"+", "@", "x", ".", "c", "o">>, <<"2", "3">>, <<"+", "2", "3">>, <<"q">>, CHRONOS}

InviteReportLists ==
    {<<>>,
     <<[BaseReport EXCEPT !.reportID = 1, !.participants = <<AL>>]>>,
     <<[BaseReport EXCEPT !.reportID = 2, !.participants = <<BO>>]>>}

InviteSelected == {<<>>, <<[login |-> NU]>>}

InviteExcludeLogins == {<<>>, <<BO>>, <<<<"+", "2", "3">> \o SMS_DOMAIN>>}

InviteOptions ==
    {[DefaultOptions EXCEPT !.includeRecentReports = TRUE,
                            !.showReportsWithNoComments = TRUE,
                            !.includePersonalDetails = details,
                            !.selectedOptions = selected,
                            !.excludeLogins = excluded,
                            !.searchValue = searchValue]
        : details \in BOOLEAN, selected \in InviteSelected,
          excluded \in InviteExcludeLogins, searchValue \in InviteQueries}

CountryCodes == {0, 44}

NextInvite ==
    \/ \E val \in SessionValues : SessionCallback(val)
    \/ \E val \in LoginListValues : LoginListCallback(val)
    \/ \E val \in CountryCodes : CountryCodeCallback(val)
    \/ /\ idle
       /\ \E reports \in InviteReportLists, options \in InviteOptions :
             GetOptionsCall(reports, People, 0, options)
    \/ Done

SpecInvite == Init /\ [][NextInvite]_vars

loginsOf(list) == {list[i].login : i \in 1..Len(list)}

sameLoginIgnoringCase(login, searchValue) ==
    login # NULL /\ toLowerCase(login) = toLowerCase(searchValue)

\* C4: getOptions returns a non-null userToInvite only if the query is
\* non-empty, is a valid non-domain email or a valid phone number, is not the
\* current user (primary login or a login of the login list), is not the
\* login of a selected option, equals case-insensitively the login of no
\* option returned in recentReports or personalDetails, and after SMS-domain
\* normalization is not in the exclusion set.
C4_InviteOnlyIf ==
    (returned /\ ret.userToInvite # NullObject) =>
        LET searchValue == call.options.searchValue
            normalized == addSMSDomainIfPhoneNumber(searchValue)
        IN  /\ searchValue # <<>>
            /\ \/ (isValidEmail(searchValue) /\ ~isDomainEmail(searchValue))
               \/ isValidPhone(searchValue)
            /\ toLowerCase(normalized) # toLowerCase(currentUserLogin)
            /\ \A i \in 1..Len(loginList.list) :
                  toLowerCase(normalized) # toLowerCase(loginList.list[i].partnerUserID)
            /\ searchValue \notin loginsOf(call.options.selectedOptions)
            /\ \A login \in loginsOf(ret.recentReports) \cup loginsOf(ret.personalDetails) :
                  ~sameLoginIgnoringCase(login, searchValue)
            /\ normalized \notin
                  loginsOf(call.options.selectedOptions)
                      \cup {call.options.excludeLogins[i] :
                               i \in 1..Len(call.options.excludeLogins)}
                      \cup {currentUserLogin}

(***************************************************************************)
(* Incomplete report data: a null entry, a report without identifier, a    *)
(* direct chat and a room without participants, next to complete reports.  *)
(***************************************************************************)
MalformedReports ==
    {NullObject,
     [BaseReport EXCEPT !.reportID = 0],
     [BaseReport EXCEPT !.reportID = 7, !.participants = <<>>],
     [BaseReport EXCEPT !.reportID = 8, !.participants = <<>>, !.chatType = "policyRoom",
                        !.policyID = "p1"],
     [BaseReport EXCEPT !.reportID = 1, !.lastMessageTimestamp = 2],
     [BaseReport EXCEPT !.reportID = 2, !.participants = <<BO>>, !.unreadActionCount = 1]}

MalformedReportLists == ListsOf(MalformedReports, MaxMalformedReports)

MalformedOptions ==
    {[DefaultOptions EXCEPT !.betas = {"all"},
                            !.includeRecentReports = TRUE,
                            !.includeMultipleParticipantReports = TRUE,
                            !.showReportsWithNoComments = TRUE,
                            !.hideReadReports = hideRead,
                            !.sortByAlphaAsc = alpha]
        : hideRead \in BOOLEAN, alpha \in BOOLEAN}

NextMalformed ==
    \/ \E val \in SessionValues : SessionCallback(val)
    \/ /\ idle
       /\ \E reports \in MalformedReportLists, options \in MalformedOptions :
             GetOptionsCall(reports, People, 0, options)
    \/ Done

SpecMalformed == Init /\ [][NextMalformed]_vars

isMalformed(report) ==
    \/ isNull(report)
    \/ report.reportID = 0
    \/ (report.participants = <<>> /\ ~isChatRoom(report) /\ ~isPolicyExpenseChat(report))

fromWellFormedReport(option, reports) ==
    \E i \in 1..Len(reports) :
        ~isMalformed(reports[i]) /\ reports[i].reportID = option.reportID

\* C5: whatever the report collection holds (null entries, reports without
\* identifier, reports without participants that are neither a room nor a
\* policy-expense-chat), getOptions completes without raising an error, and
\* no malformed entry produces a candidate option or appears in the output.
C5_MalformedReportsAreFilteredSilently ==
    ret.fn = "getOptions" =>
        /\ ret.status = "returned"
        /\ \A i \in 1..Len(ret.allReportOptions) :
              fromWellFormedReport(ret.allReportOptions[i], call.reports)
        /\ \A i \in 1..Len(ret.recentReports) :
              fromWellFormedReport(ret.recentReports[i], call.reports)

(***************************************************************************)
(* Ordering: archived and live rooms and direct chats whose timestamps and *)
(* names tie, under each choice of the sort flags.                         *)
(***************************************************************************)
OrderReports ==
    {[BaseReport EXCEPT !.reportID = 1, !.lastMessageTimestamp = 2,
                        !.lastVisitedTimestamp = 1, !.reportName = <<"b">>],
     [BaseReport EXCEPT !.reportID = 2, !.participants = <<BO>>,
                        !.lastMessageTimestamp = 2, !.lastVisitedTimestamp = 2,
                        !.reportName = <<"a">>],
     [BaseReport EXCEPT !.reportID = 3, !.chatType = "policyRoom", !.archived = TRUE,
                        !.lastMessageTimestamp = 2, !.lastVisitedTimestamp = 1,
                        !.reportName = <<"a">>],
     [BaseReport EXCEPT !.reportID = 4, !.chatType = "policyRoom", !.archived = TRUE,
                        !.lastMessageTimestamp = 1, !.lastVisitedTimestamp = 2,
                        !.reportName = <<"B">>],
     [BaseReport EXCEPT !.reportID = 5, !.chatType = "policyRoom",
                        !.lastMessageTimestamp = 1, !.lastVisitedTimestamp = 2,
                        !.reportName = <<"b">>],
     [BaseReport EXCEPT !.reportID = 6, !.archived = TRUE,
                        !.lastMessageTimestamp = 1, !.lastVisitedTimestamp = 1,
                        !.reportName = <<"B">>]}

OrderReportLists == ListsOf(OrderReports, MaxReports)

OrderOptions ==
    {[DefaultOptions EXCEPT !.betas = {"all"},
                            !.includeRecentReports = TRUE,
                            !.includeMultipleParticipantReports = TRUE,
                            !.sortByAlphaAsc = alpha,
                            !.sortByLastMessageTimestamp = byMessage]
        : alpha \in BOOLEAN, byMessage \in BOOLEAN}

NextOrder ==
    \/ \E val \in SessionValues : SessionCallback(val)
    \/ /\ idle
       /\ \E reports \in OrderReportLists, options \in OrderOptions :
             GetOptionsCall(reports, People, 0, options)
    \/ Done

SpecOrder == Init /\ [][NextOrder]_vars

\* a must come strictly before b in the primary sort the flags ask for
primaryBefore(a, b, options) ==
    IF options.sortByAlphaAsc THEN stringLess(a.reportName, b.reportName)
    ELSE IF options.sortByLastMessageTimestamp
    THEN a.lastMessageTimestamp > b.lastMessageTimestamp
    ELSE a.lastVisitedTimestamp > b.lastVisitedTimestamp

isPermutation(indexes, n) ==
    Len(indexes) = n /\ {indexes[k] : k \in 1..n} = 1..n

\* C6: in the ordered report list, for every choice of the sort flags, each
\* archived room comes after each non-archived report; inside the archived
\* group and inside the non-archived group the reports are in the order of
\* the primary sort, and reports with equal primary keys keep their input
\* order.
C6_ArchivedLastAndStable ==
    ret.fn = "getOptions" =>
        LET reports == call.reports
            ordered == ret.orderedReports
            archived(k) == isArchivedRoom(reports[ordered[k]])
        IN  /\ isPermutation(ordered, Len(reports))
            /\ \A p, q \in 1..Len(ordered) :
                  p < q =>
                      /\ ~(archived(p) /\ ~archived(q))
                      /\ (archived(p) = archived(q)) =>
                            /\ ~primaryBefore(reports[ordered[q]], reports[ordered[p]],
                                              call.options)
                            /\ ~primaryBefore(reports[ordered[p]], reports[ordered[q]],
                                              call.options)
                                  => ordered[p] < ordered[q]

\* An archived room was given before a live report, and two reports of the
\* same group tie on the primary key.
C6_Witness ==
    /\ ret.fn = "getOptions"
    /\ Len(call.reports) = MaxReports
    /\ \E i, j \in 1..Len(call.reports) :
          i < j /\ isArchivedRoom(call.reports[i]) /\ ~isArchivedRoom(call.reports[j])
    /\ \E p, q \in 1..Len(ret.orderedReports) :
          LET a == call.reports[ret.orderedReports[p]]
              b == call.reports[ret.orderedReports[q]]
          IN  /\ p < q
              /\ isArchivedRoom(a) = isArchivedRoom(b)
              /\ ~primaryBefore(a, b, call.options)
              /\ ~primaryBefore(b, a, call.options)

\* C7: when includeRecentReports is on and maxRecentReportsToShow is N > 0,
\* the report entries accepted in total (pinned, IOU-debt, draft and plain
\* buckets together) never exceed N, whatever prioritization flags are set.
C7_AcceptedEntriesCapped ==
    (/\ returned
     /\ call.options.includeRecentReports
     /\ call.options.maxRecentReportsToShow > 0)
        => Len(accepted(ret.buckets)) <= call.options.maxRecentReportsToShow

(***************************************************************************)
(* Exclusion: direct chats with Alice (two of them), Bob and the current   *)
(* user and a group, with Alice selected or Bob excluded by the caller.    *)
(***************************************************************************)
ExcludeReports ==
    {[BaseReport EXCEPT !.reportID = 1, !.participants = <<AL>>, !.lastMessageTimestamp = 5],
     [BaseReport EXCEPT !.reportID = 2, !.participants = <<AL>>, !.lastMessageTimestamp = 4],
     [BaseReport EXCEPT !.reportID = 3, !.participants = <<BO>>, !.lastMessageTimestamp = 3],
     [BaseReport EXCEPT !.reportID = 4, !.participants = <<ME>>, !.lastMessageTimestamp = 2],
     [BaseReport EXCEPT !.reportID = 5, !.participants = <<AL, BO>>,
                        !.lastMessageTimestamp = 1]}

ExcludeReportLists == ListsOf(ExcludeReports, MaxExcludeReports)

ExcludeOptions ==
    {[DefaultOptions EXCEPT !.includeRecentReports = TRUE,
                            !.includeMultipleParticipantReports = TRUE,
                            !.showReportsWithNoComments = TRUE,
                            !.includePersonalDetails = details,
                            !.selectedOptions = excluded.selected,
                            !.excludeLogins = excluded.logins,
                            !.searchValue = search.value,
                            !.sortByReportTypeInSearch = search.byType,
                            !.maxRecentReportsToShow = max]
        : details \in BOOLEAN,
          excluded \in {[selected |-> <<>>, logins |-> <<>>],
                        [selected |-> <<[login |-> AL]>>, logins |-> <<>>],
                        [selected |-> <<>>, logins |-> <<BO>>]},
          search \in {[value |-> <<>>, byType |-> TRUE],
                      [value |-> <<"o">>, byType |-> FALSE],
                      [value |-> <<"o">>, byType |-> TRUE]},
          max \in {0, 1}}

NextExclude ==
    \/ \E val \in SessionValues : SessionCallback(val)
    \/ \E val \in LoginListValues : LoginListCallback(val)
    \/ /\ idle
       /\ \E reports \in ExcludeReportLists, options \in ExcludeOptions :
             GetOptionsCall(reports, People, 0, options)
    \/ Done

SpecExclude == Init /\ [][NextExclude]_vars

\* The logins the caller and the session keep out of the results.
exclusionSet ==
    loginsOf(call.options.selectedOptions)
        \cup {call.options.excludeLogins[i] : i \in 1..Len(call.options.excludeLogins)}
        \cup {currentUserLogin}

\* C8: in every result, no option of personalDetails and no single-login
\* option of recentReports has the login of the current user, of a selected
\* option or of excludeLogins.
C8_ExcludedLoginsNeverReturned ==
    returned =>
        /\ \A i \in 1..Len(ret.personalDetails) :
              ret.personalDetails[i].login \notin exclusionSet
        /\ \A i \in 1..Len(ret.recentReports) :
              ret.recentReports[i].login # NULL
                  => ret.recentReports[i].login \notin exclusionSet

\* With the session delivered, a candidate report option and a personal
\* detail were kept out while other options were returned.
C8_Witness ==
    /\ returned
    /\ currentUserLogin = ME
    /\ call.options.includePersonalDetails
    /\ Len(call.options.selectedOptions) + Len(call.options.excludeLogins) > 0
    /\ \E i \in 1..Len(ret.allReportOptions) : ret.allReportOptions[i].login = ME
    /\ \E i \in 1..Len(ret.allReportOptions) :
          ret.allReportOptions[i].login \in exclusionSet \ {ME}
    /\ Len(ret.recentReports) > 0
    /\ Len(ret.personalDetails) > 0

loginsAppearOnce(list) ==
    \A i, j \in 1..Len(list) :
        (i # j /\ list[i].login # NULL) => list[i].login # list[j].login

\* C9: in every result a non-null login appears at most once across
\* recentReports and personalDetails together, before and after the
\* search-mode merge of the personal details into recentReports.
C9_LoginsAppearOnce ==
    returned =>
        /\ loginsAppearOnce(ret.recentReports \o ret.personalDetails)
        /\ loginsAppearOnce(ret.recentBeforeMerge \o ret.personalBeforeMerge)

\* Two candidate reports are direct chats with the same person, one of them
\* was accepted, and personal details were returned or merged as well.
C9_Witness ==
    /\ returned
    /\ call.options.includePersonalDetails
    /\ \E i, j \in 1..Len(ret.allReportOptions) :
          /\ i # j
          /\ ret.allReportOptions[i].login # NULL
          /\ ret.allReportOptions[i].login = ret.allReportOptions[j].login
          /\ ret.allReportOptions[i].login \in loginsOf(ret.recentBeforeMerge)
    /\ Len(ret.personalBeforeMerge) > 0
    /\ sortsByReportType(call.options)

\* The rank of an option in a search for searchValue: an exact login match,
\* another single-login option, an option without login that is no room, a
\* chat room or archived room.
searchRank(option, searchValue) ==
    IF sameLoginIgnoringCase(option.login, searchValue) THEN 0
    ELSE IF option.login # NULL THEN 1
    ELSE IF ~(option.isChatRoom \/ option.isArchivedRoom) THEN 2
    ELSE 3

optionsOfRank(list, rank, searchValue) ==
    SelectSeq(list, LAMBDA option : searchRank(option, searchValue) = rank)

\* C10: with sortByReportTypeInSearch on and a non-empty query, personalDetails
\* is returned empty and recentReports holds every option selected as recent
\* report or as personal detail, in non-decreasing rank, options of equal rank
\* in their order before the merge; with an empty query nothing is merged or
\* re-ranked.
C10_SearchMergeOrderedByRank ==
    returned =>
        LET searchValue == call.options.searchValue
            merged == ret.recentBeforeMerge \o ret.personalBeforeMerge
        IN  /\ (call.options.sortByReportTypeInSearch /\ searchValue # <<>>) =>
                  /\ ret.personalDetails = <<>>
                  /\ Len(ret.recentReports) = Len(merged)
                  /\ \A rank \in 0..3 :
                        optionsOfRank(ret.recentReports, rank, searchValue)
                            = optionsOfRank(merged, rank, searchValue)
                  /\ \A p, q \in 1..Len(ret.recentReports) :
                        p < q => searchRank(ret.recentReports[p], searchValue)
                                     <= searchRank(ret.recentReports[q], searchValue)
            /\ searchValue = <<>> =>
                  /\ ret.recentReports = ret.recentBeforeMerge
                  /\ ret.personalDetails = ret.personalBeforeMerge

\* A personal detail whose login equals the query up to letter case was
\* merged and moved in front of a recent report of higher rank.
C10_Witness ==
    /\ returned
    /\ sortsByReportType(call.options)
    /\ Len(ret.recentBeforeMerge) > 0
    /\ Len(ret.personalBeforeMerge) > 0
    /\ ret.recentReports # ret.recentBeforeMerge \o ret.personalBeforeMerge
    /\ searchRank(ret.recentReports[1], call.options.searchValue) = 0
    /\ ret.recentReports[1].login # call.options.searchValue
    /\ ret.recentReports[1] = ret.personalBeforeMerge[1]

CY == <<"c", "@", "x", ".", "c", "o">>

DI == <<"d", "@", "x", ".", "c", "o">>

NewChatReports ==
    <<[BaseReport EXCEPT !.reportID = 1, !.participants = <<AL>>, !.lastMessageTimestamp = 9],
      [BaseReport EXCEPT !.reportID = 2, !.participants = <<AL>>, !.chatType = "policyRoom",
                         !.policyID = "p1", !.reportName = <<"#", "x">>,
                         !.lastMessageTimestamp = 8],
      [BaseReport EXCEPT !.reportID = 3, !.participants = <<BO>>, !.lastMessageTimestamp = 7],
      [BaseReport EXCEPT !.reportID = 4, !.participants = <<AL, BO>>,
                         !.lastMessageTimestamp = 6],
      [BaseReport EXCEPT !.reportID = 5, !.participants = <<NU>>, !.lastMessageTimestamp = 5],
      [BaseReport EXCEPT !.reportID = 6, !.participants = <<CY>>,
                         !.chatType = "policyExpenseChat", !.policyID = "p1",
                         !.lastMessageTimestamp = 4],
      [BaseReport EXCEPT !.reportID = 7, !.participants = <<ME2>>, !.lastMessageTimestamp = 3],
      [BaseReport EXCEPT !.reportID = 8, !.participants = <<CY>>, !.lastMessageTimestamp = 2],
      [BaseReport EXCEPT !.reportID = 9, !.participants = <<DI>>, !.lastMessageTimestamp = 1]>>

\* The elements of list at the positions of kept, in the order of list.
selection(list, kept) ==
    [k \in 1..Cardinality(kept) |->
        list[CHOOSE i \in kept : Cardinality({j \in kept : j <= i}) = k]] \o <<>>

NewChatReportLists ==
    {selection(NewChatReports, kept) : kept \in SUBSET (1..Len(NewChatReports))}

NewChatQueries == {<<>>, <<" ">>, <<" ", "x", " ">>}

NextNewChat ==
    \/ \E val \in SessionValues : SessionCallback(val)
    \/ \E val \in LoginListValues : LoginListCallback(val)
    \/ /\ idle
       /\ \E reports \in NewChatReportLists, searchValue \in NewChatQueries,
             selectedOptions \in {<<>>, <<[login |-> BO]>>} :
             GetNewChatOptionsCall(reports, People, {"all"}, searchValue, selectedOptions,
                                   <<>>)
    \/ Done

SpecNewChat == Init /\ [][NextNewChat]_vars

newChatReturned == call.fn = "getNewChatOptions" /\ ret.status = "returned"

\* C12: getNewChatOptions returns at most 5 recentReports, none a chat room,
\* each with a non-null login of a single participant, and personalDetails
\* holds only options that are not in recentReports.
C12_NewChatOptions ==
    newChatReturned =>
        /\ Len(ret.recentReports) <= 5
        /\ \A i \in 1..Len(ret.recentReports) :
              /\ ~ret.recentReports[i].isChatRoom
              /\ ret.recentReports[i].login # NULL
              /\ Len(ret.recentReports[i].participantsList) = 1
        /\ \A i \in 1..Len(ret.personalDetails), j \in 1..Len(ret.recentReports) :
              /\ ret.personalDetails[i].login # ret.recentReports[j].login
              /\ ret.personalDetails[i].keyForList # ret.recentReports[j].keyForList

\* Six direct chats with different people, a room, a group and a
\* policy-expense-chat were given; five recent reports and some personal
\* details came back.
C12_Witness ==
    /\ newChatReturned
    /\ Len(call.reports) = Len(NewChatReports)
    /\ Len(ret.recentReports) = 5
    /\ Len(ret.personalDetails) > 0

\* C13: across recentReports and personalDetails of one result the list keys
\* are pairwise distinct; an option built from a report is keyed by the
\* report's identifier and a standalone personal detail by its login, so no
\* report identifier is the key of two returned options.
C13_ListKeysDistinct ==
    returned =>
        LET all == ret.recentReports \o ret.personalDetails
        IN  /\ \A i, j \in 1..Len(all) : i # j => all[i].keyForList # all[j].keyForList
            /\ \A i \in 1..Len(all) :
                  all[i].keyForList = IF all[i].reportID # 0
                                      THEN numberToString(all[i].reportID)
                                      ELSE all[i].login

\* Recent reports came back together with a personal detail keyed by the
\* report it is cross-referenced to and a standalone one keyed by its login,
\* while two candidate reports were direct chats with the same person.
C13_Witness ==
    /\ returned
    /\ Len(ret.recentReports) > 0
    /\ \E i \in 1..Len(ret.personalDetails) : ret.personalDetails[i].reportID # 0
    /\ \E i \in 1..Len(ret.personalDetails) : ret.personalDetails[i].reportID = 0
    /\ \E i, j \in 1..Len(ret.allReportOptions) :
          /\ i # j
          /\ ret.allReportOptions[i].login # NULL
          /\ ret.allReportOptions[i].login = ret.allReportOptions[j].login

(***************************************************************************)
(* The empty/read rule: one report per call, over every combination of the *)
(* fields the rule reads, with the betas granted and rooms not excluded so *)
(* that no other filter removes the report.                                *)
(***************************************************************************)
FilterReports ==
    {[BaseReport EXCEPT !.isPinned = pinned, !.hasDraft = draft,
                        !.hasOutstandingIOU = iou, !.iouReportID = 1,
                        !.lastMessageTimestamp = IF empty THEN 0 ELSE 1,
                        !.unreadActionCount = IF unread THEN 1 ELSE 0,
                        !.chatType = kind.chatType, !.archived = kind.archived,
                        !.policyID = "p1"]
        : pinned \in BOOLEAN, draft \in BOOLEAN, iou \in BOOLEAN, empty \in BOOLEAN,
          unread \in BOOLEAN,
          kind \in {[chatType |-> "", archived |-> FALSE],
                    [chatType |-> "policyAnnounce", archived |-> FALSE],
                    [chatType |-> "policyAnnounce", archived |-> TRUE],
                    [chatType |-> "policyExpenseChat", archived |-> FALSE]}}

FilterOptions ==
    {[DefaultOptions EXCEPT !.betas = {"all"},
                            !.includeRecentReports = TRUE,
                            !.includeMultipleParticipantReports = TRUE,
                            !.showReportsWithNoComments = showEmpty,
                            !.hideReadReports = hideRead]
        : showEmpty \in BOOLEAN, hideRead \in BOOLEAN}

FilterIOUReports == {[ownerEmail |-> AL, total |-> 1], [ownerEmail |-> ME, total |-> 2]}

NextFilter ==
    \/ \E val \in SessionValues : SessionCallback(val)
    \/ \E iouReport \in FilterIOUReports : IOUReportCallback(iouReport, 1)
    \/ /\ idle
       /\ \E report \in FilterReports, activeReportID \in {1, 2}, options \in FilterOptions :
             GetOptionsCall(<<report>>, People, activeReportID, options)
    \/ Done

SpecFilter == Init /\ [][NextFilter]_vars

\* The report carries an outstanding IOU owned by someone else than the
\* current user, as far as the IOU report is known.
owesIOUDebt(report) ==
    /\ report.hasOutstandingIOU
    /\ iouReports[report.iouReportID] # NullObject
    /\ iouReports[report.iouReportID].ownerEmail # currentUserLogin

\* C14: the empty/read rule removes a report if and only if it is not the
\* active report, is not pinned, has no draft, carries no outstanding IOU owned
\* by someone else, and either empty reports are not requested and it has no
\* message and is not a non-archived default room or policy-expense-chat, or
\* read reports are hidden and it is read.
C14_EmptyOrReadRule ==
    returned =>
        LET report == call.reports[1]
            options == call.options
            isEmpty ==
                /\ ~options.showReportsWithNoComments
                /\ report.lastMessageTimestamp = 0
                /\ ~(/\ ~(report.archived /\ report.chatType # "")
                     /\ report.chatType \in DefaultRoomTypes \cup {"policyExpenseChat"})
            isRead == options.hideReadReports /\ report.unreadActionCount = 0
        IN  (ret.allReportOptions = <<>>) <=>
                /\ report.reportID # call.activeReportID
                /\ ~report.isPinned
                /\ ~report.hasDraft
                /\ ~owesIOUDebt(report)
                /\ isEmpty \/ isRead

\* A read report that is neither active, pinned nor drafted stays a
\* candidate while read reports are hidden, because of an IOU debt.
C14_Witness ==
    /\ returned
    /\ call.options.hideReadReports
    /\ call.reports[1].unreadActionCount = 0
    /\ call.reports[1].reportID # call.activeReportID
    /\ ~call.reports[1].isPinned
    /\ ~call.reports[1].hasDraft
    /\ owesIOUDebt(call.reports[1])
    /\ Len(ret.allReportOptions) = 1

(***************************************************************************)
(* Pinned reports: a pinned archived default room, a pinned live default   *)
(* room, a pinned direct chat, an archived default room with a draft and a *)
(* plain direct chat.                                                      *)
(***************************************************************************)
PinnedReports ==
    {[BaseReport EXCEPT !.reportID = 1, !.chatType = "policyAnnounce", !.archived = TRUE,
                        !.isPinned = TRUE, !.policyID = "p1",
                        !.reportName = <<"#", "a">>, !.lastMessageTimestamp = 5],
     [BaseReport EXCEPT !.reportID = 2, !.chatType = "policyAdmins", !.isPinned = TRUE,
                        !.policyID = "p1", !.reportName = <<"#", "b">>,
                        !.lastMessageTimestamp = 4],
     [BaseReport EXCEPT !.reportID = 3, !.isPinned = TRUE, !.lastMessageTimestamp = 3],
     [BaseReport EXCEPT !.reportID = 4, !.chatType = "policyAnnounce", !.archived = TRUE,
                        !.hasDraft = TRUE, !.policyID = "p1",
                        !.reportName = <<"#", "c">>, !.lastMessageTimestamp = 2],
     [BaseReport EXCEPT !.reportID = 5, !.participants = <<BO>>,
                        !.lastMessageTimestamp = 1]}

PinnedReportLists == ListsOf(PinnedReports, MaxPinnedReports)

PinnedOptions ==
    {[DefaultOptions EXCEPT !.betas = {"all"},
                            !.includeRecentReports = TRUE,
                            !.includeMultipleParticipantReports = TRUE,
                            !.prioritizePinnedReports = pinned,
                            !.prioritizeReportsWithDraftComments = drafts]
        : pinned \in BOOLEAN, drafts \in BOOLEAN}

NextPinned ==
    \/ \E val \in SessionValues : SessionCallback(val)
    \/ /\ idle
       /\ \E reports \in PinnedReportLists, options \in PinnedOptions :
             GetOptionsCall(reports, People, 0, options)
    \/ Done

SpecPinned == Init /\ [][NextPinned]_vars

\* The report an option was built from.
reportOf(option, reports) ==
    reports[CHOOSE i \in 1..Len(reports) : reports[i].reportID = option.reportID]

\* C15: with prioritizePinnedReports on, a pinned report that is an archived
\* default room is never put in the pinned bucket, so it is not in the
\* leading pinned segment of recentReports.
C15_ArchivedDefaultRoomNotPinned ==
    (returned /\ call.options.prioritizePinnedReports) =>
        /\ \A i \in 1..Len(ret.buckets.pinned) :
              LET report == reportOf(ret.buckets.pinned[i], call.reports)
              IN  ~(isArchivedRoom(report) /\ isDefaultRoom(report))
        /\ \A i \in 1..Len(ret.buckets.pinned) :
              LET report == reportOf(ret.recentReports[i], call.reports)
              IN  ~(isArchivedRoom(report) /\ isDefaultRoom(report))

(***************************************************************************)
(* Beta gates: one default room, policy room, policy-expense-chat or       *)
(* direct chat per call, under every set of betas, with the policy of the  *)
(* room unknown, a free-plan workspace or a team workspace.                *)
(***************************************************************************)
GUIDE == <<"g">> \o GuidesDomain

BetaReports ==
    {[BaseReport EXCEPT !.chatType = chatType, !.participants = <<login>>, !.policyID = "p1",
                        !.reportName = <<"#", "r">>]
        : chatType \in {"", "policyAnnounce", "policyAdmins", "policyRoom",
                        "policyExpenseChat"},
          login \in {AL, GUIDE}}

BetaSets == SUBSET {"all", "defaultRooms", "policyRooms", "policyExpenseChat"}

PolicyValues ==
    {NullObject, [name |-> <<>>, type |-> "free"], [name |-> <<"W">>, type |-> "free"],
     [name |-> <<"T">>, type |-> "team"]}

NextBeta ==
    \/ \E policy \in PolicyValues, key \in PolicyIDs : PolicyCallback(policy, key)
    \/ /\ idle
       /\ \E report \in BetaReports, betas \in BetaSets :
             GetOptionsCall(<<report>>, People, 0,
                            [DefaultOptions EXCEPT !.betas = betas,
                                                   !.includeRecentReports = TRUE,
                                                   !.showReportsWithNoComments = TRUE])
    \/ Done

SpecBeta == Init /\ [][NextBeta]_vars

grants(betas, beta) == beta \in betas \/ "all" \in betas

\* C16: a default room is a candidate iff the betas grant default rooms, or
\* its policy is a free-plan workspace, or a participant is a guides login; a
\* user-created policy room is a candidate iff the policy-rooms beta is
\* granted, and a policy-expense-chat iff the policy-expense-chat beta is.
C16_BetaGates ==
    returned =>
        LET report == call.reports[1]
            betas == call.options.betas
            isCandidate == Len(ret.allReportOptions) = 1
            freePlan == policies[report.policyID] # NullObject
                            /\ policies[report.policyID].type = "free"
            hasGuide == \E i \in 1..Len(report.participants) :
                            endsWith(report.participants[i], GuidesDomain)
        IN  /\ report.chatType \in DefaultRoomTypes =>
                  (isCandidate <=> (grants(betas, "defaultRooms") \/ freePlan \/ hasGuide))
            /\ report.chatType = "policyRoom" =>
                  (isCandidate <=> grants(betas, "policyRooms"))
            /\ report.chatType = "policyExpenseChat" =>
                  (isCandidate <=> grants(betas, "policyExpenseChat"))

\* A default room of a free-plan workspace, without guides, is a candidate
\* although the betas grant nothing.
C16_Witness ==
    /\ returned
    /\ call.reports[1].chatType \in DefaultRoomTypes
    /\ call.reports[1].participants = <<AL>>
    /\ call.options.betas = {}
    /\ policies["p1"] # NullObject
    /\ Len(ret.allReportOptions) = 1

(***************************************************************************)
(* Options of every kind: the search catalogue with and without            *)
(* multi-participant reports, personal details and an invite.              *)
(***************************************************************************)
CreateOptions ==
    {[DefaultOptions EXCEPT !.betas = {"all"},
                            !.includeRecentReports = TRUE,
                            !.showReportsWithNoComments = TRUE,
                            !.includeMultipleParticipantReports = multiple,
                            !.includePersonalDetails = details,
                            !.searchValue = searchValue]
        : multiple \in BOOLEAN, details \in BOOLEAN, searchValue \in {<<>>, <<"o">>, NU}}

NextCreate ==
    \/ \E val \in SessionValues : SessionCallback(val)
    \/ \E val \in LoginListValues : LoginListCallback(val)
    \/ /\ idle
       /\ \E reports \in SearchReportLists, options \in CreateOptions :
             GetOptionsCall(reports, People, 0, options)
    \/ Done

SpecCreate == Init /\ [][NextCreate]_vars

\* Every option the call built, returned or not.
builtOptions ==
    ret.allReportOptions \o ret.recentReports \o ret.personalDetails
        \o (IF ret.userToInvite = NullObject THEN <<>> ELSE <<ret.userToInvite>>)

\* C17: login, phoneNumber and payPalMeAddress of an option are those of its
\* first participant if and only if the option is not multi-participant
\* (more than one resolved participant, a chat room or a policy-expense-chat)
\* and null otherwise; so a chat room or policy-expense-chat has a null login
\* and is not selected as recent report when includeMultipleParticipantReports
\* is off.
C17_LoginFieldsOnlyForSingleParticipant ==
    returned =>
        /\ \A i \in 1..Len(builtOptions) :
              LET option == builtOptions[i]
                  first == option.participantsList[1]
              IN  IF \/ Len(option.participantsList) > 1
                     \/ option.isChatRoom
                     \/ option.isPolicyExpenseChat
                  THEN /\ option.login = NULL
                       /\ option.phoneNumber = NULL
                       /\ option.payPalMeAddress = NULL
                  ELSE /\ option.login = first.login
                       /\ option.login # NULL
                       /\ option.phoneNumber = first.phoneNumber
                       /\ option.payPalMeAddress = first.payPalMeAddress
        /\ ~call.options.includeMultipleParticipantReports =>
              \A i \in 1..Len(ret.recentReports) :
                  /\ ~ret.recentReports[i].isChatRoom
                  /\ ~ret.recentReports[i].isPolicyExpenseChat

\* A policy-expense-chat with a single participant and a direct chat with a
\* person who has a phone number were candidates; only the direct chat was
\* selected.
C17_Witness ==
    /\ returned
    /\ ~call.options.includeMultipleParticipantReports
    /\ \E i \in 1..Len(ret.allReportOptions) :
          /\ ret.allReportOptions[i].isPolicyExpenseChat
          /\ Len(ret.allReportOptions[i].participantsList) = 1
    /\ \E i \in 1..Len(ret.recentReports) : ret.recentReports[i].phoneNumber # NULL

(***************************************************************************)
(* The subscriptions of the three collections: records, deletions (null),  *)
(* a policy without name, an IOU report without owner and an empty         *)
(* collection of report actions, in any order, between calls.              *)
(***************************************************************************)
CLOSED == [originalMessage |-> [reason |-> "default"]]

ADDED == [originalMessage |-> [reason |-> "none"]]

ReportActionsValues ==
    {NullObject, [list |-> <<>>], [list |-> <<CLOSED>>], [list |-> <<CLOSED, ADDED>>]}

CacheReports ==
    {<<>>,
     <<[BaseReport EXCEPT !.chatType = "policyExpenseChat", !.archived = TRUE,
                          !.policyID = "p1", !.hasOutstandingIOU = TRUE, !.iouReportID = 1]>>}

NextCaches ==
    \/ \E policy \in PolicyValues, key \in PolicyIDs : PolicyCallback(policy, key)
    \/ \E iouReport \in IOUReportValues, key \in IOUReportIDs :
          IOUReportCallback(iouReport, key)
    \/ \E actions \in ReportActionsValues, key \in ReportIDs :
          ReportActionsCallback(actions, key)
    \/ /\ idle
       /\ \E reports \in CacheReports :
             GetOptionsCall(reports, People, 0,
                            [DefaultOptions EXCEPT !.betas = {"all"},
                                                   !.includeRecentReports = TRUE,
                                                   !.includeMultipleParticipantReports = TRUE])
    \/ Done

SpecCaches == Init /\ [][NextCaches]_vars

\* C18: under any sequence of subscription callbacks the policy, IOU-report
\* and last-action caches only gain or overwrite entries: an entry that is
\* cached stays cached at every later step.
C18_CachesNeverLoseEntries ==
    [][/\ \A key \in DOMAIN policies :
             policies[key] # NullObject => policies'[key] # NullObject
       /\ \A key \in DOMAIN iouReports :
             iouReports[key] # NullObject => iouReports'[key] # NullObject
       /\ \A key \in DOMAIN lastReportActions :
             lastReportActions[key] # NullObject => lastReportActions'[key] # NullObject]_vars

====
